---- MODULE Spec2Model ----
(***************************************************************************)
(* Model of jp.core.JournalPaper (src/src/jp/core/JournalPaper.py): the    *)
(* assembly of the composed document from a paper directory and the build  *)
(* that writes it to __compiled and drives pdflatex / bibtex.              *)
(*                                                                         *)
(* Text is modelled as sequences of tokens (strings); file names are       *)
(* sequences of one-character strings so that sorted() can compare them    *)
(* character by character as Python does.                                  *)
(***************************************************************************)
EXTENDS Integers, Sequences, FiniteSets, TLC

VARIABLES
    paperEntries,   \* names of the entries of the paper directory
    metaFile,       \* metadata.json: [exists, json]
    hasBib,         \* refs.bib exists in the paper directory
    styAvailable,   \* common/neurips_2023.sty exists
    compiled,       \* __compiled: file -> number of the build that wrote it, 0 = absent
    buildNo,        \* number of the current build (JournalPaper object)
    pc,             \* position of the current build
    metadata,       \* self.metadata
    doc,            \* the pylatex Document: [packages, preamble, body]
    tex_files,      \* result of get_tex_files()
    trace,          \* steps the current build has performed, in order
    invocations,    \* external processes the current build has started, in order
    printed,        \* messages the current build has printed
    error,          \* exception the current build has raised to its caller
    nprocs,         \* number of external processes currently running
    staleAtStart,   \* __compiled held files when the current build began
    dirExists,      \* the paper directory exists
    environ,        \* os.environ of the process that runs build: the search path
    source,         \* text of __compiled/main.tex, <<>> when there is none
    prevSource,     \* text of __compiled/main.tex that the current build cleared
    cpc,            \* concurrent callers: position of each caller's build
    serialized,     \* concurrent callers: a build begins only when no other runs
    cli             \* position of the command-line entry point

vars == <<paperEntries, metaFile, hasBib, styAvailable, compiled, buildNo, pc,
          metadata, doc, tex_files, trace, invocations, printed, error, nprocs,
          staleAtStart, dirExists, environ, source, prevSource, cpc,
          serialized, cli>>

\* What stays as it is while a build runs.
envVars == <<paperEntries, metaFile, hasBib, styAvailable, staleAtStart,
            dirExists, environ, cpc, serialized, cli>>

srcVars == <<source, prevSource>>

-----------------------------------------------------------------------------
(* Bounds *)

MaxBuilds == 2
MaxEntries == 3

-----------------------------------------------------------------------------
(* Names and characters *)

TexSuffix == <<".", "t", "e", "x">>

EntryUniverse ==
    { <<"a">> \o TexSuffix,
      <<"a", "-", "b">> \o TexSuffix,
      <<"b">> \o TexSuffix,
      <<"a", ".", "t", "x", "t">> }

\* Python compares strings by code point.
CodePoint(c) ==
    CASE c = "-" -> 45
      [] c = "." -> 46
      [] c = "a" -> 97
      [] c = "b" -> 98
      [] c = "e" -> 101
      [] c = "t" -> 116
      [] c = "x" -> 120

RECURSIVE LexLess(_, _)
LexLess(a, b) ==
    IF a = <<>> THEN b # <<>>
    ELSE IF b = <<>> THEN FALSE
    ELSE IF CodePoint(Head(a)) # CodePoint(Head(b))
         THEN CodePoint(Head(a)) < CodePoint(Head(b))
         ELSE LexLess(Tail(a), Tail(b))

RECURSIVE Insert(_, _)
Insert(x, s) ==
    IF s = <<>> THEN <<x>>
    ELSE IF LexLess(x, Head(s)) THEN <<x>> \o s
    ELSE <<Head(s)>> \o Insert(x, Tail(s))

RECURSIVE InsertionSort(_)
InsertionSort(s) ==
    IF s = <<>> THEN <<>> ELSE Insert(Head(s), InsertionSort(Tail(s)))

sorted_unsorted(s) == s

sorted(s) == InsertionSort(s)

\* Path.glob("*.tex"): the entries whose name ends in ".tex".
GlobTex(entries) ==
    { n \in entries :
        /\ Len(n) >= Len(TexSuffix)
        /\ SubSeq(n, Len(n) - Len(TexSuffix) + 1, Len(n)) = TexSuffix }

\* The orders in which the filesystem may enumerate a set of entries.
RECURSIVE Enumerations(_)
Enumerations(S) ==
    IF S = {} THEN {<<>>}
    ELSE UNION { { <<x>> \o p : p \in Enumerations(S \ {x}) } : x \in S }

get_tex_files(enumeration) == sorted(enumeration)

-----------------------------------------------------------------------------
(* Metadata *)

MetaKeys == {"title", "subtitle", "authors", "note"}

AuthorList ==
    << [k \in {"name", "email"} |-> IF k = "name" THEN "N1" ELSE "e1"],
       [k \in {"name"} |-> "N2"] >>

MetaValue(k) ==
    CASE k = "title" -> <<"A">>
      [] k = "subtitle" -> <<"B">>
      [] k = "authors" -> AuthorList
      [] k = "note" -> <<"x">>

\* The JSON objects metadata.json may hold.
MetaDicts == { [k \in S |-> MetaValue(k)] : S \in SUBSET MetaKeys }

EmptyDict == [k \in {} |-> <<>>]

MetaFiles ==
    { [exists |-> FALSE, json |-> EmptyDict] }
      \cup { [exists |-> TRUE, json |-> d] : d \in MetaDicts }

load_metadata(file) == IF file.exists THEN file.json ELSE EmptyDict

\* Truth value of a dict in a Python condition.
Truthy_titleOnly(d) == "title" \in DOMAIN d

Truthy(d) == DOMAIN d # {}

-----------------------------------------------------------------------------
(* Document Assembler *)

Cmd(c, a) == [cmd |-> c, arg |-> a]

EmptyDoc == [packages |-> <<>>, preamble |-> <<>>, body |-> <<>>]

Packages ==
    << "xcolor", "neurips_2023", "inputenc", "amsmath", "hyperref", "url",
       "booktabs", "amsfonts", "nicefrac", "microtype", "listings" >>

_setup_packages(d) ==
    [d EXCEPT !.packages = Packages,
              !.preamble = Append(d.preamble, Cmd("lstset", <<"theme">>))]

LineBreak == " \\\\ "

title_text_noBreak(md) ==
    IF "subtitle" \in DOMAIN md
    THEN md["title"] \o md["subtitle"]
    ELSE md["title"]

title_text(md) ==
    IF "subtitle" \in DOMAIN md
    THEN md["title"] \o <<LineBreak>> \o md["subtitle"]
    ELSE md["title"]

_setup_title(d, md) ==
    IF "title" \notin DOMAIN md
    THEN d
    ELSE [d EXCEPT !.preamble = Append(d.preamble, Cmd("title", title_text(md)))]

author_str(author) ==
    (IF "name" \in DOMAIN author THEN <<author["name"]>> ELSE <<"">>)
      \o (IF "email" \in DOMAIN author
          THEN <<"\\thanks{\\texttt{", author["email"], "}}">>
          ELSE <<>>)

RECURSIVE JoinAnd(_)
JoinAnd(strs) ==
    IF strs = <<>> THEN <<>>
    ELSE IF Len(strs) = 1 THEN Head(strs)
    ELSE Head(strs) \o <<" \\and ">> \o JoinAnd(Tail(strs))

authors_list(md) == [i \in 1..Len(md["authors"]) |-> author_str(md["authors"][i])]

_setup_authors_always(d, md) ==
    [d EXCEPT !.preamble =
        Append(d.preamble,
               Cmd("author", IF "authors" \in DOMAIN md
                             THEN JoinAnd(authors_list(md)) ELSE <<>>))]

_setup_authors(d, md) ==
    IF "authors" \notin DOMAIN md
    THEN d
    ELSE [d EXCEPT !.preamble =
            Append(d.preamble, Cmd("author", JoinAnd(authors_list(md))))]

_setup_title_and_authors(d, md) ==
    IF ~Truthy(md) THEN d ELSE _setup_authors(_setup_title(d, md), md)

create_document(md) == _setup_title_and_authors(_setup_packages(EmptyDoc), md)

InputDirective(name) == Cmd("input", <<".", ".", "/">> \o name)

BibliographyDirectives_noStyle == << Cmd("bibliography", <<"..", "/", "refs">>) >>

BibliographyDirectives ==
    << Cmd("bibliographystyle", <<"plainnat">>),
       Cmd("bibliography", <<"..", "/", "refs">>) >>

_add_document_content(d, md, files) ==
    [d EXCEPT !.body =
        d.body
          \o (IF Truthy(md) THEN <<Cmd("maketitle", <<>>)>> ELSE <<>>)
          \o [i \in 1..Len(files) |-> InputDirective(files[i])]
          \o BibliographyDirectives]

-----------------------------------------------------------------------------
(* Build Orchestrator: the build output directory and the external tools *)

CompiledFiles ==
    {"neurips_2023.sty", "main.tex", "main.aux", "main.log",
     "main.bbl", "main.blg", "main.pdf"}

\* Exit statuses a child process may report (negative: killed by a signal).
ExitCodes == {-9, 0, 1}

EmptyDir == [f \in CompiledFiles |-> 0]

Exists(dir, f) == dir[f] # 0

\* Files written by the build numbered n.
WriteFiles(dir, fs, n) == [f \in CompiledFiles |-> IF f \in fs THEN n ELSE dir[f]]

rmtree_keep(dir) == dir

\* shutil.rmtree(compiled_dir, ignore_errors=True); os.makedirs(compiled_dir, exist_ok=True)
rmtree(dir) == EmptyDir

\* assert os.path.exists(bib_path)
AssertBib_off(bib) == TRUE

AssertBib(bib) == bib

\* result.returncode != 0 after pass 1
Pass1Failed_positiveOnly(rc) == rc > 0

Pass1Failed(rc) == rc # 0

\* subprocess.run(..., check=True) raises CalledProcessError on a non-zero status
CheckFailed_never(rc) == FALSE

CheckFailed(rc) == rc # 0

\* Values of the search-path variable in os.environ, and the value that
\* would point the tools at the directory of shared style assets.
Environs == {"unset", "user"}

StyleSearchPath == "common"

\* subprocess.run is given no env argument: the child inherits os.environ.
ChildEnv(parentEnv) == parentEnv

Running(step, tool) ==
    [step |-> step, tool |-> tool, state |-> "running", code |-> 0,
     env |-> ChildEnv(environ)]

Exited(inv, rc) == [inv EXCEPT !.state = "exited", !.code = rc]

LastExited(invs, rc) == [invs EXCEPT ![Len(invs)] = Exited(invs[Len(invs)], rc)]

\* What a pdflatex run leaves in the build output directory: the auxiliary
\* and log files, and the artifact when it produced one.
PdflatexOutput(dir, pdf, n) ==
    WriteFiles(dir, {"main.aux", "main.log"} \cup (IF pdf THEN {"main.pdf"} ELSE {}), n)

BibtexOutput(dir, bbl, n) ==
    WriteFiles(dir, {"main.blg"} \cup (IF bbl THEN {"main.bbl"} ELSE {}), n)

\* doc.generate_tex: the document class, the packages, the preamble and the
\* body between the document environment's begin and end.
generate_tex(d) ==
    <<Cmd("documentclass", <<"article">>)>>
      \o [i \in 1..Len(d.packages) |-> Cmd("usepackage", <<d.packages[i]>>)]
      \o d.preamble
      \o <<Cmd("begin", <<"document">>)>>
      \o d.body
      \o <<Cmd("end", <<"document">>)>>

\* The messages of the terminal check of build.
TerminalReport_trustExit(dir) ==
    IF Exists(dir, "main.tex") THEN {"tex ok", "pdf ok"} ELSE {"tex failed"}

TerminalReport(dir) ==
    IF Exists(dir, "main.tex")
    THEN {"tex ok"} \cup (IF Exists(dir, "main.pdf") THEN {"pdf ok"} ELSE {"pdf failed"})
    ELSE {"tex failed"}

-----------------------------------------------------------------------------
(* State machine *)

\* The callers that may build the same paper directory at the same time.
Builders == {1, 2}

EntrySets == { S \in SUBSET EntryUniverse : Cardinality(S) <= MaxEntries }

Init ==
    /\ paperEntries \in EntrySets
    /\ metaFile \in MetaFiles
    /\ hasBib \in BOOLEAN
    /\ styAvailable \in BOOLEAN
    /\ compiled = EmptyDir
    /\ buildNo = 1
    /\ pc = "new"
    /\ metadata = EmptyDict
    /\ doc = EmptyDoc
    /\ tex_files = <<>>
    /\ trace = <<>>
    /\ invocations = <<>>
    /\ printed = {}
    /\ error = "none"
    /\ nprocs = 0
    /\ staleAtStart = FALSE
    /\ dirExists \in BOOLEAN
    /\ ~dirExists => (paperEntries = {} /\ ~metaFile.exists /\ ~hasBib)
    /\ environ \in Environs
    /\ source = <<>>
    /\ prevSource = <<>>
    /\ cpc = [b \in Builders |-> "new"]
    /\ serialized = TRUE
    /\ cli = "start"

\* JournalPaper.__init__
Construct ==
    /\ pc = "new"
    /\ metadata' = load_metadata(metaFile)
    /\ pc' = "constructed"
    /\ UNCHANGED <<envVars, srcVars, compiled, buildNo, doc, tex_files, trace,
                   invocations, printed, error, nprocs>>

Assemble_clearsFirst ==
    /\ pc = "constructed"
    /\ compiled' = rmtree(compiled)
    /\ \E enumeration \in Enumerations(GlobTex(paperEntries)) :
          /\ tex_files' = get_tex_files(enumeration)
          /\ IF AssertBib(hasBib)
             THEN /\ doc' = _add_document_content(create_document(metadata),
                                                  metadata, tex_files')
                  /\ pc' = "assembled"
                  /\ error' = error
             ELSE /\ doc' = create_document(metadata)
                  /\ pc' = "raised"
                  /\ error' = "AssertionError"
    /\ UNCHANGED <<envVars, srcVars, buildNo, metadata, trace, invocations,
                   printed, nprocs>>

\* build: create_document, get_tex_files, the refs.bib assertion and
\* _add_document_content
Assemble ==
    /\ pc = "constructed"
    /\ \E enumeration \in Enumerations(GlobTex(paperEntries)) :
          /\ tex_files' = get_tex_files(enumeration)
          /\ IF AssertBib(hasBib)
             THEN /\ doc' = _add_document_content(create_document(metadata),
                                                  metadata, tex_files')
                  /\ pc' = "assembled"
                  /\ error' = error
             ELSE /\ doc' = create_document(metadata)
                  /\ pc' = "raised"
                  /\ error' = "AssertionError"
    /\ UNCHANGED <<envVars, srcVars, compiled, buildNo, metadata, trace, invocations,
                   printed, nprocs>>

\* build: rmtree and makedirs of __compiled
ClearOutput ==
    /\ pc = "assembled"
    /\ compiled' = rmtree(compiled)
    /\ prevSource' = source
    /\ source' = <<>>
    /\ trace' = Append(trace, "clear")
    /\ pc' = "cleared"
    /\ UNCHANGED <<envVars, buildNo, metadata, doc, tex_files, invocations,
                   printed, error, nprocs>>

CopyStyle_never ==
    /\ pc = "cleared"
    /\ trace' = Append(trace, "style")
    /\ pc' = "styled"
    /\ UNCHANGED <<envVars, srcVars, compiled, buildNo, metadata, doc, tex_files,
                   invocations, printed, error, nprocs>>

\* build: copy neurips_2023.sty into __compiled when it exists
CopyStyle ==
    /\ pc = "cleared"
    /\ compiled' = IF styAvailable
                   THEN WriteFiles(compiled, {"neurips_2023.sty"}, buildNo)
                   ELSE compiled
    /\ trace' = Append(trace, "style")
    /\ pc' = "styled"
    /\ UNCHANGED <<envVars, srcVars, buildNo, metadata, doc, tex_files, invocations,
                   printed, error, nprocs>>

\* build: doc.generate_tex(filepath=output_path)
WriteSource ==
    /\ pc = "styled"
    /\ compiled' = WriteFiles(compiled, {"main.tex"}, buildNo)
    /\ source' = generate_tex(doc)
    /\ trace' = Append(trace, "write")
    /\ pc' = "written"
    /\ UNCHANGED <<envVars, prevSource, buildNo, metadata, doc, tex_files, invocations,
                   printed, error, nprocs>>

Start_exportsPath(from, step, tool) ==
    /\ pc = from
    /\ environ' = StyleSearchPath
    /\ invocations' = Append(invocations, Running(step, tool))
    /\ nprocs' = nprocs + 1
    /\ trace' = Append(trace, step)
    /\ printed' = printed \cup {"Running " \o step}
    /\ pc' = step
    /\ UNCHANGED <<paperEntries, metaFile, hasBib, styAvailable, staleAtStart,
                   dirExists, srcVars, compiled, buildNo, metadata, doc,
                   tex_files, error, cpc, serialized, cli>>

\* subprocess.run starts the child process of a step
Start(from, step, tool) ==
    /\ pc = from
    /\ invocations' = Append(invocations, Running(step, tool))
    /\ nprocs' = nprocs + 1
    /\ trace' = Append(trace, step)
    /\ printed' = printed \cup {"Running " \o step}
    /\ pc' = step
    /\ UNCHANGED <<envVars, srcVars, compiled, buildNo, metadata, doc, tex_files, error>>

StartPass1 == Start("written", "pass1", "pdflatex")

\* _compile_with_bibliography: pass 1 returns; a non-zero status raises
Pass1Exit ==
    /\ pc = "pass1"
    /\ \E rc \in ExitCodes, pdf \in BOOLEAN :
          /\ compiled' = PdflatexOutput(compiled, pdf, buildNo)
          /\ invocations' = LastExited(invocations, rc)
          /\ nprocs' = nprocs - 1
          /\ IF Pass1Failed(rc)
             THEN /\ printed' = printed \cup {"First pdflatex pass failed", "stdout tail"}
                  /\ error' = "RuntimeError"
                  /\ pc' = "raised"
             ELSE /\ printed' = printed
                  /\ error' = error
                  /\ pc' = "pass1_ok"
    /\ UNCHANGED <<envVars, srcVars, buildNo, metadata, doc, tex_files, trace>>

StartBibtex == Start("pass1_ok", "bibtex", "bibtex")

BibtexExit_fatal ==
    /\ pc = "bibtex"
    /\ \E rc \in ExitCodes, bbl \in BOOLEAN :
          /\ compiled' = BibtexOutput(compiled, bbl, buildNo)
          /\ invocations' = LastExited(invocations, rc)
          /\ nprocs' = nprocs - 1
          /\ printed' = printed
          /\ IF rc # 0
             THEN error' = "RuntimeError" /\ pc' = "raised"
             ELSE error' = error /\ pc' = "bibtex_done"
    /\ UNCHANGED <<envVars, srcVars, buildNo, metadata, doc, tex_files, trace>>

\* _compile_with_bibliography: bibtex returns; a non-zero status only warns
BibtexExit ==
    /\ pc = "bibtex"
    /\ \E rc \in ExitCodes, bbl \in BOOLEAN :
          /\ compiled' = BibtexOutput(compiled, bbl, buildNo)
          /\ invocations' = LastExited(invocations, rc)
          /\ nprocs' = nprocs - 1
          /\ printed' = IF rc # 0
                        THEN printed \cup {"BibTeX warnings/errors (continuing anyway)"}
                        ELSE printed
          /\ pc' = "bibtex_done"
    /\ UNCHANGED <<envVars, srcVars, buildNo, metadata, doc, tex_files, trace, error>>

StartPass2_skipBibtex == Start("pass1_ok", "pass2", "pdflatex")

StartPass2 == Start("bibtex_done", "pass2", "pdflatex")

\* _compile_with_bibliography: a check=True pass returns
CheckedExit(step, next) ==
    /\ pc = step
    /\ \E rc \in ExitCodes, pdf \in BOOLEAN :
          /\ compiled' = PdflatexOutput(compiled, pdf, buildNo)
          /\ invocations' = LastExited(invocations, rc)
          /\ nprocs' = nprocs - 1
          /\ IF CheckFailed(rc)
             THEN error' = "CalledProcessError" /\ pc' = "raised"
             ELSE error' = error /\ pc' = next
    /\ UNCHANGED <<envVars, srcVars, buildNo, metadata, doc, tex_files, trace, printed>>

Pass2Exit == CheckedExit("pass2", "pass2_ok")

StartPass3 == Start("pass2_ok", "pass3", "pdflatex")

Pass3Exit == CheckedExit("pass3", "pass3_ok")

\* build: the terminal check of main.tex and main.pdf, then return
TerminalCheck ==
    /\ pc = "pass3_ok"
    /\ printed' = printed \cup TerminalReport(compiled)
    /\ trace' = Append(trace, "check")
    /\ pc' = "returned"
    /\ UNCHANGED <<envVars, srcVars, compiled, buildNo, metadata, doc, tex_files,
                   invocations, error, nprocs>>

\* The caller runs the pipeline again; refs.bib may have been added or
\* removed in between, the rest of the paper directory is as it was.
NextBuild ==
    /\ pc \in {"returned", "raised"}
    /\ buildNo < MaxBuilds
    /\ buildNo' = buildNo + 1
    /\ hasBib' \in (IF dirExists THEN BOOLEAN ELSE {FALSE})
    /\ pc' = "new"
    /\ metadata' = EmptyDict
    /\ doc' = EmptyDoc
    /\ tex_files' = <<>>
    /\ trace' = <<>>
    /\ invocations' = <<>>
    /\ printed' = {}
    /\ error' = "none"
    /\ staleAtStart' = (\E f \in CompiledFiles : Exists(compiled, f))
    /\ UNCHANGED <<paperEntries, metaFile, styAvailable, compiled, nprocs,
                   dirExists, environ, srcVars, cpc, serialized, cli>>

Next ==
    \/ Construct
    \/ Assemble
    \/ ClearOutput
    \/ CopyStyle
    \/ WriteSource
    \/ StartPass1
    \/ Pass1Exit
    \/ StartBibtex
    \/ BibtexExit
    \/ StartPass2
    \/ Pass2Exit
    \/ StartPass3
    \/ Pass3Exit
    \/ TerminalCheck
    \/ NextBuild

Spec == Init /\ [][Next]_vars

-----------------------------------------------------------------------------
(* Callers of build that do not wait for each other, and the command-line   *)
(* entry point.  Each caller runs the steps of build on the one __compiled  *)
(* of the paper directory; files are tagged with the caller that wrote them.*)

seqVars == <<paperEntries, metaFile, hasBib, styAvailable, staleAtStart, dirExists,
            environ, source, prevSource, buildNo, pc, metadata, doc, tex_files,
            trace, invocations, printed, error, nprocs>>

InitConc ==
    /\ paperEntries = {}
    /\ metaFile = [exists |-> FALSE, json |-> EmptyDict]
    /\ hasBib \in BOOLEAN
    /\ styAvailable \in BOOLEAN
    /\ compiled = EmptyDir
    /\ buildNo = 1
    /\ pc = "new"
    /\ metadata = EmptyDict
    /\ doc = EmptyDoc
    /\ tex_files = <<>>
    /\ trace = <<>>
    /\ invocations = <<>>
    /\ printed = {}
    /\ error = "none"
    /\ nprocs = 0
    /\ staleAtStart = FALSE
    /\ dirExists = TRUE
    /\ environ = "unset"
    /\ source = <<>>
    /\ prevSource = <<>>
    /\ cpc = [b \in Builders |-> "new"]
    /\ serialized \in BOOLEAN
    /\ cli = "start"

BuildOver_early(p) == p \in {"returned", "raised", "pass1", "bibtex", "pass2", "pass3"}

\* build has returned to its caller or raised
BuildOver(p) == p \in {"returned", "raised"}

Goto(b, p) == cpc' = [cpc EXCEPT ![b] = p]

\* A caller constructs a JournalPaper and calls build, which runs up to the
\* refs.bib assertion and composes the body; a caller that serializes waits
\* until no other build is running.
CBegin(b) ==
    /\ cpc[b] = "new"
    /\ serialized => \A o \in Builders \ {b} : cpc[o] = "new" \/ BuildOver(cpc[o])
    /\ Goto(b, IF AssertBib(hasBib) THEN "assembled" ELSE "raised")
    /\ UNCHANGED <<seqVars, compiled, serialized, cli>>

CClear(b) ==
    /\ cpc[b] = "assembled"
    /\ compiled' = rmtree(compiled)
    /\ Goto(b, "cleared")
    /\ UNCHANGED <<seqVars, serialized, cli>>

CCopyStyle(b) ==
    /\ cpc[b] = "cleared"
    /\ compiled' = IF styAvailable
                   THEN WriteFiles(compiled, {"neurips_2023.sty"}, b)
                   ELSE compiled
    /\ Goto(b, "styled")
    /\ UNCHANGED <<seqVars, serialized, cli>>

CWrite(b) ==
    /\ cpc[b] = "styled"
    /\ compiled' = WriteFiles(compiled, {"main.tex"}, b)
    /\ Goto(b, "written")
    /\ UNCHANGED <<seqVars, serialized, cli>>

\* The process a build starts next.
NextProcess(p) ==
    CASE p = "written" -> "pass1"
      [] p = "pass1_ok" -> "bibtex"
      [] p = "bibtex_done" -> "pass2"
      [] p = "pass2_ok" -> "pass3"

CStart(b) ==
    /\ cpc[b] \in {"written", "pass1_ok", "bibtex_done", "pass2_ok"}
    /\ Goto(b, NextProcess(cpc[b]))
    /\ UNCHANGED <<seqVars, compiled, serialized, cli>>

CPassExit(b) ==
    /\ cpc[b] \in {"pass1", "pass2", "pass3"}
    /\ \E rc \in ExitCodes, pdf \in BOOLEAN :
          /\ compiled' = PdflatexOutput(compiled, pdf, b)
          /\ Goto(b, IF cpc[b] = "pass1"
                     THEN (IF Pass1Failed(rc) THEN "raised" ELSE "pass1_ok")
                     ELSE IF CheckFailed(rc) THEN "raised"
                     ELSE IF cpc[b] = "pass2" THEN "pass2_ok" ELSE "pass3_ok")
    /\ UNCHANGED <<seqVars, serialized, cli>>

CBibtexExit(b) ==
    /\ cpc[b] = "bibtex"
    /\ \E bbl \in BOOLEAN : compiled' = BibtexOutput(compiled, bbl, b)
    /\ Goto(b, "bibtex_done")
    /\ UNCHANGED <<seqVars, serialized, cli>>

CCheck(b) ==
    /\ cpc[b] = "pass3_ok"
    /\ Goto(b, "returned")
    /\ UNCHANGED <<seqVars, compiled, serialized, cli>>

\* workflows/pipeline.py
DirPathArg == <<"d", "i", "r", "_", "p", "a", "t", "h">>

PipelineKwargs == {"help", "required"}

\* argparse: a name without a leading "-" is a positional, and add_argument
\* raises TypeError when given `required` for a positional.
add_argument(name, kwargs) ==
    IF Head(name) # "-" /\ "required" \in kwargs THEN "TypeError" ELSE "ok"

\* The entry point: the parser is set up, the argument parsed, the paper
\* constructed and built.
RunPipeline ==
    /\ cli = "start"
    /\ cli' = IF add_argument(DirPathArg, PipelineKwargs) = "ok"
              THEN "built"
              ELSE add_argument(DirPathArg, PipelineKwargs)
    /\ UNCHANGED <<seqVars, compiled, cpc, serialized>>

NextConc ==
    \/ \E b \in Builders :
          \/ CBegin(b)
          \/ CClear(b)
          \/ CCopyStyle(b)
          \/ CWrite(b)
          \/ CStart(b)
          \/ CPassExit(b)
          \/ CBibtexExit(b)
          \/ CCheck(b)
    \/ RunPipeline

SpecConc == InitConc /\ [][NextConc]_vars

-----------------------------------------------------------------------------
(* Vocabulary of the properties *)

\* build has composed the body (it got past the refs.bib assertion).
BodyComposed == pc \notin {"new", "constructed"} /\ error # "AssertionError"

\* build has run up to or past the refs.bib assertion.
BuildBegun == pc \notin {"new", "constructed"}

Count(seq, c) == Cardinality({ i \in 1..Len(seq) : seq[i].cmd = c })

Positions(seq, c) == { i \in 1..Len(seq) : seq[i].cmd = c }

IsInput(d) == d.cmd = "input"

InputDirectives == SelectSeq(doc.body, IsInput)

\* The file name an inclusion directive refers to, the "../" removed.
InputName(d) == SubSeq(d.arg, 4, Len(d.arg))

NotStyle(s) == s # "style"

StepsOfTrace == SelectSeq(trace, NotStyle)

FullProtocol == <<"clear", "write", "pass1", "bibtex", "pass2", "pass3", "check">>

ToolProtocol == <<"pass1", "bibtex", "pass2", "pass3">>

IsPrefix(s, t) == Len(s) <= Len(t) /\ s = SubSeq(t, 1, Len(s))

BibtexWarning == "BibTeX warnings/errors (continuing anyway)"

-----------------------------------------------------------------------------
(* C1: a typesetting pass that exits non-zero is the last external process  *)
(* of its build and the build has raised an error; bibtex is started only   *)
(* after pass 1 has exited 0.                                               *)
C1_FatalPassAborts ==
    /\ \A i \in 1..Len(invocations) :
          (/\ invocations[i].tool = "pdflatex"
           /\ invocations[i].state = "exited"
           /\ invocations[i].code # 0)
            => /\ i = Len(invocations)
               /\ pc = "raised"
               /\ error \in {"RuntimeError", "CalledProcessError"}
    /\ \A i \in 1..Len(invocations) :
          invocations[i].tool = "bibtex"
            => /\ i = 2
               /\ invocations[1] = Exited(Running("pass1", "pdflatex"), 0)

C1_Witness ==
    /\ pc = "raised"
    /\ Len(invocations) = 1
    /\ invocations[1].state = "exited"
    /\ invocations[1].code = -9

(* C2: once bibtex has exited, with whatever status, the build has not      *)
(* raised because of it: the next process started is pass 2, the warning is *)
(* printed exactly when the status is non-zero, and the build can return.   *)
C2_BibtexTolerated ==
    \A i \in 1..Len(invocations) :
        (invocations[i].tool = "bibtex" /\ invocations[i].state = "exited")
          => /\ (invocations[i].code # 0) <=> (BibtexWarning \in printed)
             /\ IF Len(invocations) = i
                THEN pc = "bibtex_done" /\ error = "none"
                ELSE invocations[i + 1].step = "pass2"

C2_Witness ==
    /\ pc = "returned"
    /\ invocations[2].tool = "bibtex"
    /\ invocations[2].code = 1
    /\ BibtexWarning \in printed
    /\ "pdf ok" \in printed

(* C3: with refs.bib present the steps of a build are always a prefix of    *)
(* clear, write, pass 1, bibtex, pass 2, pass 3, check, and are all of them *)
(* when build returns; at most one external process runs at a time and      *)
(* every process but the last started has exited.                           *)
C3_SequentialProtocol ==
    /\ hasBib => IsPrefix(StepsOfTrace, FullProtocol)
    /\ (hasBib /\ pc = "returned") => StepsOfTrace = FullProtocol
    /\ nprocs \in {0, 1}
    /\ nprocs = Cardinality({ i \in 1..Len(invocations) : invocations[i].state = "running" })
    /\ \A i \in 1..Len(invocations) :
          invocations[i].state = "running" => i = Len(invocations)

C3_Witness ==
    /\ hasBib
    /\ pc = "returned"
    /\ Len(invocations) = 4
    /\ trace[Len(trace)] = "check"

(* C4: with refs.bib present the composed body holds exactly one            *)
(* bibliography-style and one bibliography-source directive, both after     *)
(* every inclusion directive, and the processes of the build are those of   *)
(* the three-pass protocol with bibtex after pass 1.                        *)
C4_BibliographyGate ==
    (hasBib /\ BodyComposed)
      => /\ Count(doc.body, "bibliographystyle") = 1
         /\ Count(doc.body, "bibliography") = 1
         /\ \A i \in Positions(doc.body, "input") :
               \A j \in Positions(doc.body, "bibliographystyle")
                          \cup Positions(doc.body, "bibliography") : i < j
         /\ IsPrefix([i \in 1..Len(invocations) |-> invocations[i].step], ToolProtocol)
         /\ pc = "returned" => Len(invocations) = Len(ToolProtocol)

C4_Witness ==
    /\ hasBib
    /\ pc = "returned"
    /\ Len(tex_files) >= 2
    /\ Count(doc.body, "bibliography") = 1

(* C5 as stated: with refs.bib absent build proceeds as a normal build: it  *)
(* does not fail on the absence, the body holds no bibliography directive   *)
(* and no bibtex process is started.                                        *)
C5_AbsentBibStillBuilds ==
    (~hasBib /\ BuildBegun)
      => /\ error # "AssertionError"
         /\ pc # "raised"
         /\ Count(doc.body, "bibliographystyle") = 0
         /\ Count(doc.body, "bibliography") = 0
         /\ \A i \in 1..Len(invocations) : invocations[i].tool # "bibtex"

(* C5 amended: with refs.bib absent build raises the assertion error before *)
(* the body is composed: the body holds no bibliography directive, nothing  *)
(* is done to the build output and no external process is started, bibtex   *)
(* or other.                                                                *)
C5_AbsentBibAborts ==
    (~hasBib /\ BuildBegun)
      => /\ pc = "raised"
         /\ error = "AssertionError"
         /\ doc.body = <<>>
         /\ Count(doc.body, "bibliographystyle") = 0
         /\ Count(doc.body, "bibliography") = 0
         /\ invocations = <<>>
         /\ trace = <<>>

C5_Witness ==
    /\ ~hasBib
    /\ pc = "raised"
    /\ error = "AssertionError"
    /\ Len(tex_files) >= 1

(* C6: when build returns after pass 3, it has reported success exactly     *)
(* when main.pdf exists in the build output, and reported the failure of    *)
(* the PDF compilation exactly when it does not, all passes having exited 0.*)
C6_TerminalCheck ==
    pc = "returned"
      => /\ ("pdf ok" \in printed) <=> Exists(compiled, "main.pdf")
         /\ ("pdf failed" \in printed) <=> ~Exists(compiled, "main.pdf")
         /\ trace[Len(trace)] = "check"
         /\ trace[Len(trace) - 1] = "pass3"
         /\ \A i \in 1..Len(invocations) :
               invocations[i].tool = "pdflatex" => invocations[i].code = 0

C6_Witness ==
    /\ pc = "returned"
    /\ ~Exists(compiled, "main.pdf")
    /\ "pdf failed" \in printed
    /\ "pdf ok" \notin printed
    /\ \A i \in {1, 3, 4} : invocations[i].state = "exited" /\ invocations[i].code = 0

C8_SortedInclusions ==
    BodyComposed
      => /\ Len(InputDirectives) = Cardinality(GlobTex(paperEntries))
         /\ { InputDirectives[i].arg : i \in 1..Len(InputDirectives) }
              = { <<".", ".", "/">> \o n : n \in GlobTex(paperEntries) }
         /\ \A i, j \in 1..Len(InputDirectives) :
               i < j => LexLess(InputName(InputDirectives[i]),
                                InputName(InputDirectives[j]))

C8_Witness ==
    /\ BodyComposed
    /\ Len(InputDirectives) = 3
    /\ InputName(InputDirectives[1]) = <<"a", "-", "b">> \o TexSuffix
    /\ InputName(InputDirectives[2]) = <<"a">> \o TexSuffix

(* C9: without metadata.json the document has no title-block directive, no  *)
(* title command and no author command; with a metadata.json that has no    *)
(* authors field there is no author command and there is a title command    *)
(* exactly when it has a title field.                                       *)
C9_MetadataGate ==
    BuildBegun
      => /\ ~metaFile.exists
              => /\ Count(doc.body, "maketitle") = 0
                 /\ Count(doc.preamble, "title") = 0
                 /\ Count(doc.preamble, "author") = 0
         /\ (metaFile.exists /\ "authors" \notin DOMAIN metaFile.json)
              => /\ Count(doc.preamble, "author") = 0
                 /\ Count(doc.preamble, "title")
                      = (IF "title" \in DOMAIN metaFile.json THEN 1 ELSE 0)

C9_Witness ==
    /\ BodyComposed
    /\ metaFile.exists
    /\ DOMAIN metaFile.json = {"title", "subtitle"}
    /\ Count(doc.preamble, "title") = 1
    /\ Count(doc.preamble, "author") = 0

(* C10 as stated: the body has the title-block directive exactly when       *)
(* metadata.json exists, whatever fields it holds.                          *)
C10_TitleBlockIffDescriptor ==
    BodyComposed => (Count(doc.body, "maketitle") = 1 <=> metaFile.exists)

(* C10 amended: the body has the title-block directive, once, exactly when  *)
(* metadata.json exists and holds at least one field, whatever the fields   *)
(* are; an empty object is treated as no metadata.                          *)
C10_TitleBlockIffNonEmpty ==
    BodyComposed
      => /\ Count(doc.body, "maketitle") \in {0, 1}
         /\ Count(doc.body, "maketitle") = 1
              <=> (metaFile.exists /\ DOMAIN metaFile.json # {})

C10_Witness ==
    /\ BodyComposed
    /\ metaFile.exists
    /\ DOMAIN metaFile.json = {"note"}
    /\ Count(doc.body, "maketitle") = 1
    /\ Count(doc.preamble, "title") = 0

(* C11: with a title and a subtitle the title command's text is the title,  *)
(* the forced line break, the subtitle; with a title and no subtitle it is  *)
(* the title alone, with no line break in it.                               *)
C11_TitleText ==
    (BuildBegun /\ metaFile.exists /\ "title" \in DOMAIN metaFile.json)
      => /\ Count(doc.preamble, "title") = 1
         /\ \A i \in Positions(doc.preamble, "title") :
               IF "subtitle" \in DOMAIN metaFile.json
               THEN doc.preamble[i].arg = <<"A", LineBreak, "B">>
               ELSE /\ doc.preamble[i].arg = <<"A">>
                    /\ \A k \in 1..Len(doc.preamble[i].arg) :
                          doc.preamble[i].arg[k] # LineBreak

C11_Witness ==
    /\ BuildBegun
    /\ DOMAIN metaFile.json = {"title", "subtitle"}
    /\ \E i \in Positions(doc.preamble, "title") :
          doc.preamble[i].arg = <<"A", " \\\\ ", "B">>

(* C12 as stated: whenever a typesetting pass has exited non-zero and build *)
(* has raised, the tail of the tool's output has been printed, whichever    *)
(* of the three passes failed.                                              *)
C12_DiagnosticsSurfaced ==
    (pc = "raised" /\ error \in {"RuntimeError", "CalledProcessError"})
      => "stdout tail" \in printed

(* C20: with refs.bib present, a build that is over has returned normally   *)
(* exactly when passes 1, 2 and 3 all exited 0, whatever bibtex's status    *)
(* and whether or not main.pdf exists; a missing main.pdf is printed and    *)
(* nothing is raised.                                                       *)
C20_ReturnsIffPassesOk ==
    (hasBib /\ pc \in {"returned", "raised"})
      => /\ pc = "returned"
              <=> /\ Len(invocations) = 4
                  /\ \A i \in {1, 3, 4} :
                        /\ invocations[i].tool = "pdflatex"
                        /\ invocations[i].state = "exited"
                        /\ invocations[i].code = 0
         /\ pc = "returned" => error = "none"
         /\ (pc = "returned" /\ ~Exists(compiled, "main.pdf"))
              => "pdf failed" \in printed

C20_Witness ==
    /\ hasBib
    /\ pc = "returned"
    /\ error = "none"
    /\ ~Exists(compiled, "main.pdf")
    /\ invocations[2].code # 0

(* C13: no step of a build changes the environment of the process that     *)
(* runs it: whatever way the build ends, os.environ is what it was when the *)
(* build began.                                                             *)
C13_EnvironUntouched == [][buildNo' = buildNo => environ' = environ]_vars

C13_Witness ==
    /\ pc = "raised"
    /\ error = "CalledProcessError"
    /\ Len(invocations) = 4
    /\ environ = "unset"

(* C14 as stated: every external process of a build is started with the     *)
(* search-path variable set to the directory of shared style assets.        *)
C14_SearchPathAtEveryInvocation ==
    \A i \in 1..Len(invocations) : invocations[i].env = StyleSearchPath

(* C14 amended: every external process of a build is started with the       *)
(* environment of the parent process as it is, and, when the shared style   *)
(* file exists, with a copy of it made by this build in __compiled.         *)
C14_StyleByCopy ==
    \A i \in 1..Len(invocations) :
        /\ invocations[i].env = environ
        /\ styAvailable => compiled["neurips_2023.sty"] = buildNo

C14_Witness ==
    /\ pc = "pass3"
    /\ styAvailable
    /\ environ = "unset"
    /\ invocations[4].env = "unset"
    /\ compiled["neurips_2023.sty"] = buildNo

(* C15: when the paper directory does not exist, a build that has begun has *)
(* raised the precondition failure with no external process started.        *)
C15_MissingDirectoryFails ==
    (~dirExists /\ BuildBegun)
      => /\ pc = "raised"
         /\ error = "AssertionError"
         /\ invocations = <<>>
         /\ nprocs = 0

C15_Witness ==
    /\ ~dirExists
    /\ pc = "raised"
    /\ tex_files = <<>>
    /\ metadata = EmptyDict

(* C16: the source a build writes is the same text as the main.tex an       *)
(* earlier build of the same paper directory had left in __compiled.        *)
C16_SameSource ==
    ((\E i \in 1..Len(trace) : trace[i] = "write") /\ prevSource # <<>>)
      => source = prevSource

C16_Witness ==
    /\ buildNo = 2
    /\ pc = "written"
    /\ prevSource # <<>>
    /\ source = prevSource
    /\ Len(tex_files) >= 2

(* C19: while refs.bib is missing no step of a build changes __compiled or  *)
(* main.tex, performs a step on the build output or starts a process.       *)
C19_MissingBibTouchesNothing ==
    [][(~hasBib /\ buildNo' = buildNo)
         => /\ compiled' = compiled
            /\ source' = source
            /\ trace' = <<>>
            /\ invocations' = <<>>]_vars

C19_Witness ==
    /\ ~hasBib
    /\ buildNo = 2
    /\ pc = "raised"
    /\ error = "AssertionError"
    /\ compiled["main.tex"] = 1
    /\ compiled["main.pdf"] = 1
    /\ source # <<>>

\* A build is between its write of the source and the end of its last pass.
Between ==
    {"written", "pass1", "pass1_ok", "bibtex", "bibtex_done", "pass2", "pass2_ok", "pass3"}

\* The main.tex the build of b is compiling has been removed or replaced.
Clobbered(b) == cpc[b] \in Between /\ compiled["main.tex"] # b

(* C17: when the callers serialize their builds, no build between its write *)
(* of the source and its last pass has its build output cleared or          *)
(* rewritten by another build; without serialization such a state is        *)
(* reachable (C17_Witness).                                                 *)
C17_SerializedIsSafe ==
    serialized
      => \A b \in Builders :
            cpc[b] \in Between
              => /\ ~Clobbered(b)
                 /\ \A o \in Builders \ {b} : cpc[o] = "new" \/ BuildOver(cpc[o])
                 /\ \A f \in CompiledFiles : compiled[f] \in {0, b}

C17_Witness ==
    /\ ~serialized
    /\ cpc[1] = "pass2"
    /\ cpc[2] = "cleared"
    /\ Clobbered(1)
    /\ compiled["main.tex"] = 0

(* C18 as stated: once the entry point has run with its positional          *)
(* argument, it has constructed the paper and run its build once.           *)
C18_CliBuildsOnce == cli # "start" => cli = "built"

====
